---- MODULE Spec2Model ----
(***************************************************************************)
(* Model of scripts/ai_pr_summary.mjs: one run of main(), from the         *)
(* environment it starts with to the exit of the process.                  *)
(*                                                                         *)
(* Strings whose content matters character by character (the diff, the     *)
(* value handed to the generator) are sequences of one-character strings.  *)
(* A markdown document is a sequence of lines, each line a sequence of     *)
(* string pieces (<<>> is an empty line).                                  *)
(***************************************************************************)
EXTENDS Integers, Sequences, FiniteSets, TLC

\* ------------------------------------------------------------------ bounds

\* Longest raw `git diff` output explored.
MaxDiffLen == 5

\* The cap of gitDiff (8000 in the source), scaled down so that diffs below,
\* at and above the cap are all explored.
DiffCap == 3

\* ------------------------------------------------------- environment values

\* process.env.X of a variable that is not set (JS undefined).
Unset == "<undefined>"

\* The values a process.env entry takes here: not set, set to the empty
\* string (what an absent Actions secret expands to), set to a value.
EnvValues == {Unset, "", "v"}

EnvNames ==
    {"COHERE_API_KEY", "BASE_SHA", "HEAD_SHA", "GITHUB_TOKEN",
     "GITHUB_REPOSITORY", "PR_NUMBER", "GITHUB_STEP_SUMMARY"}

\* JS `!x` on a process.env entry: true of undefined and of "".
Falsy(x) == x \in {Unset, ""}

\* ------------------------------------------------------------ diff strings

Whitespace == {" ", "\n"}

DiffAlphabet == {"a"} \cup Whitespace

RECURSIVE StringsUpTo(_)
StringsUpTo(n) ==
    IF n = 0 THEN {<<>>}
    ELSE LET shorter == StringsUpTo(n - 1)
         IN  shorter \cup {Append(s, c) : s \in {t \in shorter : Len(t) = n - 1},
                                          c \in DiffAlphabet}

\* The outputs `git diff` may print.
DiffOutputs == StringsUpTo(MaxDiffLen)

\* String.prototype.slice(0, n)
Slice0(s, n) == SubSeq(s, 1, IF Len(s) < n THEN Len(s) ELSE n)

RECURSIVE TrimStart(_)
TrimStart(s) ==
    IF s # <<>> /\ Head(s) \in Whitespace THEN TrimStart(Tail(s)) ELSE s

RECURSIVE TrimEnd(_)
TrimEnd(s) ==
    IF s # <<>> /\ s[Len(s)] \in Whitespace
    THEN TrimEnd(SubSeq(s, 1, Len(s) - 1))
    ELSE s

\* String.prototype.trim()
Trim(s) == TrimEnd(TrimStart(s))

\* gitDiff's return value, given what execSync returned.
GitDiffNoCap(diff) == diff

GitDiff(diff) == IF Len(diff) > DiffCap THEN Slice0(diff, DiffCap) ELSE diff

\* "(No diff found.)"
Placeholder ==
    <<"(", "N", "o", " ", "d", "i", "f", "f", " ", "f", "o", "u", "n", "d", ".", ")">>

\* The `diff` input of chain.invoke:  diff.trim() || "(No diff found.)"
GeneratorInputNoPlaceholder(diff) == Trim(diff)

GeneratorInput(diff) == IF Trim(diff) = <<>> THEN Placeholder ELSE Trim(diff)

\* ---------------------------------------------------------------- markdown
\* The fixed texts are those of the source without their emoji and backquotes.

MissingKeyWarning ==
    << <<"Missing COHERE_API_KEY. Add it as a GitHub Actions secret.">> >>

MissingRevWarning ==
    << <<"Missing BASE_SHA or HEAD_SHA environment variables.">> >>

FailurePrefix == <<"AI summary failed (this can happen on trial limits). Error:">>

\* The message of the catch block: the prefix, a blank line, String(err).
FailureWarning(e) == <<FailurePrefix, <<>>, <<e>>>>

\* xs.map(x => `- ${x}`).join("\n"), as lines: joining nothing is one empty line.
BulletLines(xs) ==
    IF xs = <<>> THEN << <<>> >> ELSE [i \in 1..Len(xs) |-> <<"- ", xs[i]>>]

\* The rendered report `md`.
RenderReport(result) ==
    << <<"### What changed">> >> \o BulletLines(result.what_changed)
    \o << <<>>, <<"### Potential risks / things to double-check">> >>
    \o BulletLines(result.risks)
    \o << <<>>, <<"### Suggested test plan">> >>
    \o BulletLines(result.test_plan)

CommentTitle == <<"## AI PR Review Summary">>

\* The `body` field of the JSON posted to GitHub.
CommentBody(markdown) == <<CommentTitle, <<>>>> \o markdown

\* -------------------------------------------------------- outside outcomes

\* What chain.invoke resolves to when prompt, model and parser succeed.
Results ==
    {[what_changed |-> <<"adds subtract">>, risks |-> <<"no tests">>,
      test_plan |-> <<"run npm test", "call subtract">>],
     [what_changed |-> <<"tiny diff">>, risks |-> <<>>, test_plan |-> <<>>]}

\* String(err) of what chain.invoke may throw.
GenerationErrors ==
    {"Error: 429 trial rate limit", "OutputParserException: Failed to parse"}

\* What fetch gives back: a response with a status, or a rejection (status 0).
HttpStatuses == {201, 403, 500}
Responses ==
    {[rejected |-> FALSE, status |-> s] : s \in HttpStatuses}
    \cup {[rejected |-> TRUE, status |-> 0]}

\* Response.ok
ResOk(resp) == ~resp.rejected /\ resp.status >= 200 /\ resp.status <= 299

\* String(err) of what postPrComment throws for a response.
PostError(resp) ==
    CASE resp.rejected    -> "TypeError: fetch failed"
      [] resp.status = 403 -> "Error: Failed to post PR comment: 403"
      [] OTHER             -> "Error: Failed to post PR comment: 500"

\* -------------------------------------------------------------------- state

VARIABLES
    env,          \* process.env, fixed for the run
    pc,           \* position of main, from checkKey to exited
    exitCode,     \* exit status of the process once pc is exited, -1 before
    uncaught,     \* the call whose exception ended the process, or none
    diffOutcome,  \* none, ok or failed: what execSync did in gitDiff
    rawDiff,      \* what execSync returned
    diff,         \* main's `diff`
    genInputs,    \* the `diff` input of every chain.invoke call, in order
    md,           \* main's `md`
    err,          \* String(err) in the catch block
    published,    \* every markdown passed to postPrComment, in order
    posts,        \* every HTTPS POST made, in order, with its response
    stderr,       \* console.warn lines
    stdout,       \* what was written to standard output
    summaryFile   \* what was appended to the file GITHUB_STEP_SUMMARY names

vars ==
    <<env, pc, exitCode, uncaught, diffOutcome, rawDiff, diff, genInputs, md,
      err, published, posts, stderr, stdout, summaryFile>>

Init ==
    /\ env \in [EnvNames -> EnvValues]
    /\ pc = "checkKey"
    /\ exitCode = -1
    /\ uncaught = "none"
    /\ diffOutcome = "none"
    /\ rawDiff = <<>>
    /\ diff = <<>>
    /\ genInputs = <<>>
    /\ md = <<>>
    /\ err = ""
    /\ published = <<>>
    /\ posts = <<>>
    /\ stderr = <<>>
    /\ stdout = <<>>
    /\ summaryFile = <<>>

\* ------------------------------------------------------------ postPrComment

\* if (!token || !repo || !prNumber)
GithubContextMissingAll ==
    /\ Falsy(env["GITHUB_TOKEN"])
    /\ Falsy(env["GITHUB_REPOSITORY"])
    /\ Falsy(env["PR_NUMBER"])

GithubContextMissing ==
    \/ Falsy(env["GITHUB_TOKEN"])
    \/ Falsy(env["GITHUB_REPOSITORY"])
    \/ Falsy(env["PR_NUMBER"])

\* postPrComment(markdown) throws, fetch having given back resp.
PostThrows(resp) == ~GithubContextMissing /\ ~ResOk(resp)

\* The effects of postPrComment(markdown), fetch giving back resp if called.
PostPrComment(markdown, resp) ==
    /\ published' = Append(published, markdown)
    /\ IF GithubContextMissing
       THEN /\ stderr' = Append(stderr, "Missing GitHub context; skipping PR comment.")
            /\ posts' = posts
       ELSE /\ posts' = Append(posts,
                   [repo |-> env["GITHUB_REPOSITORY"], prNumber |-> env["PR_NUMBER"],
                    token |-> env["GITHUB_TOKEN"], body |-> CommentBody(markdown),
                    response |-> resp])
            /\ stderr' = stderr
    /\ UNCHANGED <<stdout, summaryFile>>

\* process.exit(0)
Exit0 == pc' = "exited" /\ exitCode' = 0 /\ uncaught' = uncaught

\* An exception leaves main: `await main()` rejects and node exits with 1.
Crash(origin) == pc' = "exited" /\ exitCode' = 1 /\ uncaught' = origin

\* --------------------------------------------------------------------- main

\* if (!process.env.COHERE_API_KEY) { await postPrComment(...); process.exit(0); }
MainCheckKeyFallThrough ==
    /\ pc = "checkKey"
    /\ IF Falsy(env["COHERE_API_KEY"])
       THEN \E resp \in Responses :
               /\ PostPrComment(MissingKeyWarning, resp)
               /\ IF PostThrows(resp) THEN Crash("postPrComment")
                  ELSE pc' = "checkRevs" /\ UNCHANGED <<exitCode, uncaught>>
       ELSE /\ pc' = "checkRevs"
            /\ UNCHANGED <<exitCode, uncaught, published, posts, stderr, stdout,
                           summaryFile>>
    /\ UNCHANGED <<env, diffOutcome, rawDiff, diff, genInputs, md, err>>

MainCheckKey ==
    /\ pc = "checkKey"
    /\ IF Falsy(env["COHERE_API_KEY"])
       THEN \E resp \in Responses :
               /\ PostPrComment(MissingKeyWarning, resp)
               /\ IF PostThrows(resp) THEN Crash("postPrComment") ELSE Exit0
       ELSE /\ pc' = "checkRevs"
            /\ UNCHANGED <<exitCode, uncaught, published, posts, stderr, stdout,
                           summaryFile>>
    /\ UNCHANGED <<env, diffOutcome, rawDiff, diff, genInputs, md, err>>

\* if (!baseSha || !headSha) { await postPrComment(...); process.exit(0); }
MainCheckRevsFallThrough ==
    /\ pc = "checkRevs"
    /\ IF Falsy(env["BASE_SHA"]) \/ Falsy(env["HEAD_SHA"])
       THEN \E resp \in Responses :
               /\ PostPrComment(MissingRevWarning, resp)
               /\ IF PostThrows(resp) THEN Crash("postPrComment")
                  ELSE pc' = "gitDiff" /\ UNCHANGED <<exitCode, uncaught>>
       ELSE /\ pc' = "gitDiff"
            /\ UNCHANGED <<exitCode, uncaught, published, posts, stderr, stdout,
                           summaryFile>>
    /\ UNCHANGED <<env, diffOutcome, rawDiff, diff, genInputs, md, err>>

MainCheckRevs ==
    /\ pc = "checkRevs"
    /\ IF Falsy(env["BASE_SHA"]) \/ Falsy(env["HEAD_SHA"])
       THEN \E resp \in Responses :
               /\ PostPrComment(MissingRevWarning, resp)
               /\ IF PostThrows(resp) THEN Crash("postPrComment") ELSE Exit0
       ELSE /\ pc' = "gitDiff"
            /\ UNCHANGED <<exitCode, uncaught, published, posts, stderr, stdout,
                           summaryFile>>
    /\ UNCHANGED <<env, diffOutcome, rawDiff, diff, genInputs, md, err>>

\* const diff = gitDiff(baseSha, headSha);  execSync throws or returns text.
MainGitDiffSoftFail ==
    /\ pc = "gitDiff"
    /\ \/ /\ diffOutcome' = "failed"
          /\ \E resp \in Responses :
                /\ PostPrComment(FailureWarning("Error: Command failed: git diff"), resp)
                /\ IF PostThrows(resp) THEN Crash("postPrComment") ELSE Exit0
          /\ UNCHANGED <<rawDiff, diff>>
       \/ /\ diffOutcome' = "ok"
          /\ \E out \in DiffOutputs : rawDiff' = out /\ diff' = GitDiff(out)
          /\ pc' = "invoke"
          /\ UNCHANGED <<exitCode, uncaught, published, posts, stderr, stdout,
                         summaryFile>>
    /\ UNCHANGED <<env, genInputs, md, err>>

MainGitDiff ==
    /\ pc = "gitDiff"
    /\ \/ /\ diffOutcome' = "failed"
          /\ Crash("gitDiff")
          /\ UNCHANGED <<rawDiff, diff>>
       \/ /\ diffOutcome' = "ok"
          /\ \E out \in DiffOutputs : rawDiff' = out /\ diff' = GitDiff(out)
          /\ pc' = "invoke"
          /\ UNCHANGED <<exitCode, uncaught>>
    /\ UNCHANGED <<env, genInputs, md, err, published, posts, stderr, stdout,
                   summaryFile>>

\* try { const result = await chain.invoke({diff: ..., ...}); const md = ...;
MainInvokeNoCatch ==
    /\ pc = "invoke"
    /\ genInputs' = Append(genInputs, GeneratorInput(diff))
    /\ \/ \E result \in Results :
             /\ md' = RenderReport(result)
             /\ pc' = "publish"
             /\ UNCHANGED <<err, exitCode, uncaught>>
       \/ \E e \in GenerationErrors :
             /\ err' = e
             /\ Crash("chain.invoke")
             /\ UNCHANGED md
    /\ UNCHANGED <<env, diffOutcome, rawDiff, diff, published, posts,
                   stderr, stdout, summaryFile>>

MainInvoke ==
    /\ pc = "invoke"
    /\ genInputs' = Append(genInputs, GeneratorInput(diff))
    /\ \/ \E result \in Results :
             /\ md' = RenderReport(result)
             /\ pc' = "publish"
             /\ UNCHANGED err
       \/ \E e \in GenerationErrors :
             /\ err' = e
             /\ pc' = "catch"
             /\ UNCHANGED md
    /\ UNCHANGED <<env, exitCode, uncaught, diffOutcome, rawDiff, diff, published,
                   posts, stderr, stdout, summaryFile>>

\* await postPrComment(md); }   still inside the try block; main then returns
\* and the process ends with status 0.
MainPublishReport ==
    /\ pc = "publish"
    /\ \E resp \in Responses :
          /\ PostPrComment(md, resp)
          /\ IF PostThrows(resp)
             THEN pc' = "catch" /\ err' = PostError(resp)
                  /\ UNCHANGED <<exitCode, uncaught>>
             ELSE Exit0 /\ UNCHANGED err
    /\ UNCHANGED <<env, diffOutcome, rawDiff, diff, genInputs, md>>

\* catch (err) { await postPrComment(... String(err) ...); process.exit(0); }
MainCatch ==
    /\ pc = "catch"
    /\ \E resp \in Responses :
          /\ PostPrComment(FailureWarning(err), resp)
          /\ IF PostThrows(resp) THEN Crash("postPrComment") ELSE Exit0
    /\ UNCHANGED <<env, diffOutcome, rawDiff, diff, genInputs, md, err>>

Next ==
    \/ MainCheckKey
    \/ MainCheckRevs
    \/ MainGitDiff
    \/ MainInvoke
    \/ MainPublishReport
    \/ MainCatch

Spec == Init /\ [][Next]_vars

\* =================================================================== claims

\* A POST that GitHub answered with a success status.
Delivered(p) ==
    ~p.response.rejected /\ p.response.status \in 200..299

\* A POST that GitHub answered with a non-success status.
Refused(p) ==
    ~p.response.rejected /\ p.response.status \notin 200..299

LastPostFailed == posts # <<>> /\ ~Delivered(posts[Len(posts)])

KeyMissing == env["COHERE_API_KEY"] \in {Unset, ""}

RevMissing == env["BASE_SHA"] \in {Unset, ""} \/ env["HEAD_SHA"] \in {Unset, ""}

ContextIncomplete ==
    \/ env["GITHUB_TOKEN"] \in {Unset, ""}
    \/ env["GITHUB_REPOSITORY"] \in {Unset, ""}
    \/ env["PR_NUMBER"] \in {Unset, ""}

GenerationRaised == err \in GenerationErrors

IsReport(m) == m # <<>> /\ m[1] = <<"### What changed">>

\* C1 (as stated): a run that ends with a non-zero exit code ends so only
\* because an exception escaped a publish step.
C1_NonZeroOnlyFromPublish ==
    pc = "exited" => (exitCode # 0 => LastPostFailed)

\* C1 (amended): a run ends with exit code 0 unless an exception escapes a
\* publish step or diff collection fails; a generation failure alone never
\* makes the exit code non-zero.
C1_NonZeroOnlyFromPublishOrDiff ==
    pc = "exited" =>
        /\ exitCode \in {0, 1}
        /\ exitCode # 0 => (LastPostFailed \/ diffOutcome = "failed")

C1_Witness ==
    pc = "exited" /\ exitCode = 0 /\ GenerationRaised /\ posts # <<>>

\* C2: once a run has ended, a POST answered with a non-success status is the
\* last POST of the run and the run ended with a non-zero exit code.
C2_DeliveryFailureFatalNoRetry ==
    pc = "exited" =>
        \A i \in 1..Len(posts) :
            Refused(posts[i]) => i = Len(posts) /\ exitCode # 0

\* C3 (as stated): with COHERE_API_KEY unset nothing but the missing-key
\* warning is published, no diff is collected, the generator is not called,
\* and the run ends with exit code 0.
C3_MissingKeyExitsZero ==
    env["COHERE_API_KEY"] = Unset =>
        /\ published \in {<<>>, <<MissingKeyWarning>>}
        /\ diffOutcome = "none" /\ genInputs = <<>>
        /\ pc = "exited" => published = <<MissingKeyWarning>> /\ exitCode = 0

\* C3 (amended): with COHERE_API_KEY unset or empty nothing but the
\* missing-key warning is published, no diff is collected, the generator is
\* not called, and the run ends with exit code 0 unless the POST of the
\* warning fails, in which case it ends with a non-zero exit code.
C3_MissingKeyOnlyWarning ==
    KeyMissing =>
        /\ published \in {<<>>, <<MissingKeyWarning>>}
        /\ diffOutcome = "none" /\ genInputs = <<>>
        /\ Len(posts) <= 1
        /\ pc \in {"checkKey", "exited"}
        /\ pc = "exited" =>
              /\ published = <<MissingKeyWarning>>
              /\ exitCode # 0 <=> LastPostFailed

C3_Witness ==
    /\ env["COHERE_API_KEY"] = Unset
    /\ ~Falsy(env["BASE_SHA"]) /\ ~Falsy(env["HEAD_SHA"])
    /\ pc = "exited" /\ exitCode = 0
    /\ Len(posts) = 1

\* C4 (as stated): with COHERE_API_KEY set and BASE_SHA or HEAD_SHA unset or
\* empty nothing but the missing-revision warning is published, no diff is
\* collected, the generator is not called, and the run ends with exit code 0.
C4_MissingRevExitsZero ==
    ~KeyMissing /\ RevMissing =>
        /\ published \in {<<>>, <<MissingRevWarning>>}
        /\ diffOutcome = "none" /\ genInputs = <<>>
        /\ pc = "exited" => published = <<MissingRevWarning>> /\ exitCode = 0

\* C4 (amended): as stated, except that the run ends with exit code 0 unless
\* the POST of the warning fails, in which case it ends with a non-zero code.
C4_MissingRevOnlyWarning ==
    ~KeyMissing /\ RevMissing =>
        /\ published \in {<<>>, <<MissingRevWarning>>}
        /\ diffOutcome = "none" /\ genInputs = <<>>
        /\ Len(posts) <= 1
        /\ pc \in {"checkKey", "checkRevs", "exited"}
        /\ pc = "exited" =>
              /\ published = <<MissingRevWarning>>
              /\ exitCode # 0 <=> LastPostFailed

C4_Witness ==
    /\ ~KeyMissing
    /\ env["BASE_SHA"] = "v" /\ env["HEAD_SHA"] = Unset
    /\ pc = "exited" /\ exitCode = 0
    /\ Len(posts) = 1

\* C5 (as stated): when the generation call raises, the failure prefix
\* followed by the error is what is published, the report is never
\* published, and the run ends with exit code 0.
C5_GenerationFailureExitsZero ==
    GenerationRaised =>
        /\ \A i \in 1..Len(published) : ~IsReport(published[i])
        /\ pc = "exited" =>
              /\ Len(published) = 1
              /\ published[1][1] = FailurePrefix
              /\ published[1][Len(published[1])] = <<err>>
              /\ exitCode = 0

\* C5 (amended): as stated, except that the run ends with exit code 0 unless
\* the POST of the failure warning itself fails, in which case that exception
\* escapes and the run ends with a non-zero exit code.
C5_GenerationFailureWarned ==
    GenerationRaised =>
        /\ \A i \in 1..Len(published) : ~IsReport(published[i])
        /\ pc \in {"catch", "exited"}
        /\ pc = "exited" =>
              /\ Len(published) = 1
              /\ published[1][1] = FailurePrefix
              /\ published[1][Len(published[1])] = <<err>>
              /\ Len(posts) <= 1
              /\ exitCode # 0 <=> LastPostFailed

C5_Witness ==
    GenerationRaised /\ pc = "exited" /\ exitCode = 0 /\ Len(posts) = 1

\* C6: with GITHUB_TOKEN, GITHUB_REPOSITORY or PR_NUMBER missing, no run makes
\* an HTTPS POST or fails in the publish step, whichever path main takes;
\* every publish attempt only logs a warning.
C6_NoPostWithoutContext ==
    ContextIncomplete =>
        /\ posts = <<>>
        /\ uncaught # "postPrComment"
        /\ Len(stderr) = Len(published)
        /\ pc = "exited" /\ diffOutcome # "failed" => exitCode = 0

C6_Witness ==
    /\ ContextIncomplete
    /\ env["GITHUB_TOKEN"] = "v"
    /\ pc = "exited"
    /\ Len(published) = 1 /\ IsReport(published[1])

\* C7: when diff collection fails the run is over with a non-zero exit code,
\* no generation call has been made and nothing was passed to the publisher.
C7_DiffFailureAborts ==
    diffOutcome = "failed" =>
        /\ pc = "exited" /\ exitCode # 0
        /\ genInputs = <<>>
        /\ published = <<>> /\ posts = <<>>

C7_Witness ==
    diffOutcome = "failed" /\ pc = "exited" /\ ~ContextIncomplete

\* The first DiffCap characters of the raw diff (the whole diff if shorter).
CappedRaw == SubSeq(rawDiff, 1, IF Len(rawDiff) > DiffCap THEN DiffCap ELSE Len(rawDiff))

\* C8 (as stated), its first half: the diff value sent to the generator for a
\* diff longer than the cap has exactly DiffCap characters and is the first
\* DiffCap characters of the diff.  (Runs that send the placeholder are left
\* aside here: they are the empty-diff case of C9.)
C8_SentIsCappedDiff ==
    (genInputs # <<>> /\ genInputs[1] # Placeholder /\ Len(rawDiff) > DiffCap) =>
        /\ Len(genInputs[1]) = DiffCap
        /\ genInputs[1] = SubSeq(rawDiff, 1, DiffCap)

\* C8 (amended): the diff value sent to the generator is the first DiffCap
\* characters of the diff (the whole diff if it is not longer) with leading
\* and trailing whitespace removed, or the placeholder if nothing remains; it
\* has exactly DiffCap characters only if the diff is longer than the cap
\* and neither its first nor its DiffCap-th character is whitespace.
C8_SentIsTrimmedCappedDiff ==
    genInputs # <<>> =>
        LET sent == genInputs[1]
            c    == CappedRaw
            ink  == {i \in 1..Len(c) : c[i] \notin Whitespace}
        IN  /\ Len(c) <= DiffCap
            /\ ink = {} => sent = Placeholder
            /\ ink # {} =>
                  LET lo == CHOOSE i \in ink : \A j \in ink : i <= j
                      hi == CHOOSE i \in ink : \A j \in ink : j <= i
                  IN  sent = SubSeq(c, lo, hi) /\ Len(sent) <= DiffCap
            /\ (Len(rawDiff) >= DiffCap /\ c[1] \notin Whitespace
                  /\ c[DiffCap] \notin Whitespace) => sent = SubSeq(rawDiff, 1, DiffCap)

C8_Witness ==
    /\ genInputs # <<>>
    /\ Len(rawDiff) > DiffCap
    /\ genInputs[1] # Placeholder
    /\ Len(genInputs[1]) < DiffCap

\* C9: with COHERE_API_KEY, BASE_SHA and HEAD_SHA set and the diff collected,
\* the generator is invoked exactly once in the run, an empty diff included,
\* and then with the placeholder and never with the empty string.
C9_GeneratorInvokedOnce ==
    diffOutcome = "ok" =>
        /\ ~KeyMissing /\ ~RevMissing
        /\ Len(genInputs) = (IF pc = "invoke" THEN 0 ELSE 1)
        /\ pc \in {"invoke", "publish", "catch", "exited"}
        /\ genInputs # <<>> =>
              /\ genInputs[1] # <<>>
              /\ rawDiff = <<>> => genInputs[1] = Placeholder

C9_Witness ==
    diffOutcome = "ok" /\ rawDiff = <<>> /\ pc = "exited" /\ genInputs = <<Placeholder>>

\* C10: once a run that rendered a report has ended normally, the report,
\* under the fixed title, has been appended to the file GITHUB_STEP_SUMMARY
\* names, or written to standard output when GITHUB_STEP_SUMMARY is unset.
C10_ReportInJobSummary ==
    (pc = "exited" /\ exitCode = 0 /\ IsReport(md) /\ ~GenerationRaised) =>
        /\ env["GITHUB_STEP_SUMMARY"] = "v" => summaryFile = <<CommentBody(md)>>
        /\ env["GITHUB_STEP_SUMMARY"] = Unset => stdout # <<>>

====
